---- MODULE Spec2Model ----
(***************************************************************************)
(* Model of the calendar maintenance scripts: db_add.py (Inserter),        *)
(* db_UPDATE.py (Updater), db_delete.py (Deleter), db_check.py (Lister)    *)
(* and main-calendar/start.py (Bootstrapper).                              *)
(*                                                                         *)
(* One script runs at a time, as a separate process started from a working *)
(* directory.  A script is a straight-line program; pc is the index of the *)
(* statement it executes next.  The SQLite files live in a small file      *)
(* system; a relative path is resolved against the working directory of    *)
(* the process that opens it.  Non-ASCII literals of the source are        *)
(* written in ASCII transliteration.                                       *)
(***************************************************************************)
EXTENDS Integers, Sequences, FiniteSets, TLC

VARIABLES
    storage,   \* committed content of every database file
    clock,     \* last value returned by datetime.now()
    script,    \* the script of the current (or last) run
    cwd,       \* working directory of the current run
    status,    \* "idle", "running", "done" (exit 0) or "error" (unhandled exception)
    pc,        \* index of the next statement of the running script
    conn,      \* the connection: the file it was opened on and whether it is open
    txn,       \* the connection's view of its file (uncommitted changes included)
    data,      \* the literals and clock reads bound as statement parameters
    rows,      \* db_check.py: the list returned by fetchall()
    stdout,    \* what the run has printed
    log,       \* sequence of events of the run
    procs,     \* start.py: the sub-processes launched, in launch order
    env,       \* start.py: the executables found on the search path of the run
    before,    \* storage when the current run started
    prev,      \* summary of the previous run
    inserted,  \* ids of the rows of the project database created by db_add.py
    runs       \* number of runs started

vars == <<storage, clock, script, cwd, status, pc, conn, txn, data, rows,
          stdout, log, procs, env, before, prev, inserted, runs, env>>

----------------------------------------------------------------------------
(* Bounds *)

MaxRuns == 2
MaxClock == 3

----------------------------------------------------------------------------
(* Literals of the scripts *)

event_id == 3
new_title == "sujeongdoen iljeong jemok"
new_description == "sujeongdoen seolmyeong-imnida."
add_title == "yesi iljeong jemok"
add_description == "jikjeop sabiphan iljeong-imnida."
add_start_time == "2025-05-20 09:00:00"
add_end_time == "2025-05-20 10:00:00"
add_user_id == 1
add_is_active == 1
add_is_deleted == 0

msg_add == "iljeong chuga wanlyo"
msg_update == "iljeong sujeong wanlyo!"
msg_delete == "iljeong wanjeon sagje wanlyo!"

DbScripts == {"add", "update", "delete", "check"}
Writers == {"add", "update", "delete"}
Scripts == DbScripts \cup {"start"}

\* The path literal each script passes to sqlite3.connect
PathOf(s) ==
    IF s = "update" THEN "db.sqlite3" ELSE "event-calendar-main/db.sqlite3"

\* The success message each writing script prints last
MessageOf(s) ==
    CASE s = "add" -> msg_add
      [] s = "update" -> msg_update
      [] s = "delete" -> msg_delete

\* The statements of each script in source order
ProgramNoCommit(s) ==
    CASE s = "add" -> <<"connect", "params", "insert", "close", "print">>
      [] s = "update" -> <<"connect", "params", "update", "close", "print">>
      [] s = "delete" -> <<"connect", "params", "delete", "close", "print">>
      [] s = "check" -> <<"connect", "select", "printrows", "close">>
      [] s = "start" -> <<"chdir", "pip", "makemigrations", "migrate", "runserver">>

Program(s) ==
    CASE s = "add" -> <<"connect", "params", "insert", "commit", "close", "print">>
      [] s = "update" -> <<"connect", "params", "update", "commit", "close", "print">>
      [] s = "delete" -> <<"connect", "params", "delete", "commit", "close", "print">>
      [] s = "check" -> <<"connect", "select", "printrows", "close">>
      [] s = "start" -> <<"chdir", "pip", "makemigrations", "migrate", "runserver">>

----------------------------------------------------------------------------
(* File system *)

Dirs == {"root", "project"}
Executables == {"pip", "python"}
Files == {"rootdb", "projdb"}

\* Resolution of a relative path against a working directory.  "root" is the
\* directory that contains event-calendar-main, "project" is
\* event-calendar-main itself, which has no event-calendar-main below it.
Resolve(d, path) ==
    IF d = "root"
    THEN IF path = "db.sqlite3" THEN "rootdb" ELSE "projdb"
    ELSE IF path = "db.sqlite3" THEN "projdb" ELSE "nodir"

Absent == [kind |-> "absent", rows |-> {}, seq |-> 0]
EmptyFile == [kind |-> "empty", rows |-> {}, seq |-> 0]

\* sqlite3.connect creates the file when it does not exist
Opened(f) == IF f.kind = "absent" THEN EmptyFile ELSE f

HasTable(f) == f.kind = "table"

----------------------------------------------------------------------------
(* The calendarapp_event table *)

Schema == <<"id", "title", "description", "start_time", "end_time",
            "is_active", "is_deleted", "created_at", "updated_at", "user_id">>

\* A row as the tuple SELECT * returns
TupleOf(r) == [i \in 1..Len(Schema) |-> r[Schema[i]]]

Ids(rs) == {r.id : r \in rs}

MaxOf(S) == IF S = {} THEN 0 ELSE CHOOSE m \in S : \A n \in S : n <= m

\* The id the storage layer gives a row inserted without one
AssignIdReuse(f) == MaxOf(Ids(f.rows) \cup {f.seq})

AssignId(f) == MaxOf(Ids(f.rows) \cup {f.seq}) + 1

\* The parameter tuple of db_add.py; t1 and t2 are its two clock reads
AddDataSwapped(t1, t2) ==
    [is_active |-> add_is_active, is_deleted |-> add_is_deleted,
     created_at |-> t2, updated_at |-> t1,
     description |-> add_description, start_time |-> add_start_time,
     end_time |-> add_end_time, user_id |-> add_user_id, title |-> add_title]

AddData(t1, t2) ==
    [is_active |-> add_is_active, is_deleted |-> add_is_deleted,
     created_at |-> t1, updated_at |-> t2,
     description |-> add_description, start_time |-> add_start_time,
     end_time |-> add_end_time, user_id |-> add_user_id, title |-> add_title]

\* INSERT INTO calendarapp_event (nine columns) VALUES (?, ..., ?)
InsertRowMisbound(f, d) ==
    LET id == AssignId(f)
    IN [f EXCEPT !.rows = @ \cup {[id |-> id, is_active |-> d.is_active,
                                   is_deleted |-> d.is_deleted,
                                   created_at |-> d.created_at,
                                   updated_at |-> d.updated_at,
                                   description |-> d.title,
                                   start_time |-> d.start_time,
                                   end_time |-> d.end_time,
                                   user_id |-> d.user_id,
                                   title |-> d.description]},
                  !.seq = id]

InsertRow(f, d) ==
    LET id == AssignId(f)
    IN [f EXCEPT !.rows = @ \cup {[id |-> id, is_active |-> d.is_active,
                                   is_deleted |-> d.is_deleted,
                                   created_at |-> d.created_at,
                                   updated_at |-> d.updated_at,
                                   description |-> d.description,
                                   start_time |-> d.start_time,
                                   end_time |-> d.end_time,
                                   user_id |-> d.user_id,
                                   title |-> d.title]},
                  !.seq = id]

\* UPDATE calendarapp_event SET title = ?, description = ?, updated_at = ? WHERE id = ?
UpdateRowsNoWhere(f, d) ==
    [f EXCEPT !.rows = {[r EXCEPT !.title = d.title,
                                  !.description = d.description,
                                  !.updated_at = d.updated_at] : r \in @}]

UpdateRows(f, d) ==
    [f EXCEPT !.rows = {IF r.id = d.event_id
                        THEN [r EXCEPT !.title = d.title,
                                       !.description = d.description,
                                       !.updated_at = d.updated_at]
                        ELSE r : r \in @}]

\* DELETE FROM calendarapp_event WHERE id = ?
DeleteRowsSoft(f, d) ==
    [f EXCEPT !.rows = {IF r.id = d.event_id
                        THEN [r EXCEPT !.is_deleted = 1]
                        ELSE r : r \in @}]

DeleteRowsUpTo(f, d) ==
    [f EXCEPT !.rows = {r \in @ : r.id > d.event_id}]

DeleteRows(f, d) ==
    [f EXCEPT !.rows = {r \in @ : r.id # d.event_id}]

\* The lists SELECT * ... fetchall() can return: every row once, as a tuple,
\* in an order the storage engine chooses
Orders(rs) ==
    {s \in [1..Cardinality(rs) -> rs] : \A i, j \in DOMAIN s : i # j => s[i] # s[j]}

FetchAllButLast(f) ==
    {[i \in 1..(Len(s) - 1) |-> TupleOf(s[i])] : s \in Orders(f.rows)}

FetchAll(f) ==
    {[i \in DOMAIN s |-> TupleOf(s[i])] : s \in Orders(f.rows)}

----------------------------------------------------------------------------
(* Initial state *)

\* A row written earlier by the web application
AppRow(i, del) ==
    [id |-> i, is_active |-> 1, is_deleted |-> del, created_at |-> 0,
     updated_at |-> 0, description |-> "d0", start_time |-> "s0",
     end_time |-> "e0", user_id |-> 2, title |-> "t0"]

Table(rs) == [kind |-> "table", rows |-> rs, seq |-> MaxOf(Ids(rs))]

InitProjTables ==
    {Table(rs) : rs \in {{}, {AppRow(3, 0)}, {AppRow(3, 1)}, {AppRow(2, 0)},
                         {AppRow(2, 1), AppRow(3, 0)},
                         {AppRow(1, 0), AppRow(2, 0)}}}

InitRootTables ==
    {Table(rs) : rs \in {{}, {AppRow(3, 0)}, {AppRow(2, 1), AppRow(3, 0)}}}

NoData == [none |-> TRUE]
NoConn == [file |-> "none", open |-> FALSE]
NoRun == [script |-> "none", cwd |-> "root", file |-> "none", status |-> "idle",
          data |-> NoData, before |-> [f \in Files |-> Absent]]

Init ==
    /\ storage \in [Files -> InitProjTables \cup InitRootTables \cup {Absent}]
    /\ storage["projdb"] \in InitProjTables \cup {Absent}
    /\ storage["rootdb"] \in InitRootTables \cup {Absent}
    /\ clock = 1
    /\ script = "none"
    /\ cwd = "root"
    /\ status = "idle"
    /\ pc = 1
    /\ conn = NoConn
    /\ txn = Absent
    /\ data = NoData
    /\ rows = <<>>
    /\ stdout = <<>>
    /\ log = <<>>
    /\ procs = <<>>
    /\ env = {}
    /\ before = storage
    /\ prev = NoRun
    /\ inserted = {}
    /\ runs = 0

----------------------------------------------------------------------------
(* Control *)

Stmt == Program(script)[pc]

At(st) == status = "running" /\ Stmt = st

\* Fall through to the next statement; the process exits 0 after the last one
Advance ==
    /\ pc' = pc + 1
    /\ status' = IF pc + 1 > Len(Program(script)) THEN "done" ELSE "running"

\* An unhandled exception ends the process
Raise ==
    /\ pc' = pc
    /\ status' = "error"

\* The operator starts a script from a working directory
Start(s, d, e) ==
    /\ status # "running"
    /\ s # "start" => e = {}
    /\ runs < MaxRuns
    /\ runs' = runs + 1
    /\ prev' = [script |-> script, cwd |-> cwd, file |-> conn.file, status |-> status,
                data |-> data, before |-> before]
    /\ script' = s
    /\ cwd' = d
    /\ status' = "running"
    /\ pc' = 1
    /\ conn' = NoConn
    /\ txn' = Absent
    /\ data' = NoData
    /\ rows' = <<>>
    /\ stdout' = <<>>
    /\ log' = <<>>
    /\ procs' = <<>>
    /\ env' = e
    /\ before' = storage
    /\ UNCHANGED <<storage, clock, inserted>>

----------------------------------------------------------------------------
(* Statements of the database scripts *)

\* The values datetime.now() can return after it returned t: the clock never
\* goes back
Reads(t) == {u \in t..(t + 1) : u <= MaxClock}

\* conn = sqlite3.connect(path); cursor = conn.cursor()
Connect ==
    /\ At("connect")
    /\ LET f == Resolve(cwd, PathOf(script))
       IN IF f = "nodir"
          THEN /\ Raise
               /\ log' = Append(log, "raise")
               /\ UNCHANGED <<storage, conn, txn>>
          ELSE /\ Advance
               /\ conn' = [file |-> f, open |-> TRUE]
               /\ storage' = [storage EXCEPT ![f] = Opened(@)]
               /\ txn' = Opened(storage[f])
               /\ log' = Append(log, "connect")
    /\ UNCHANGED <<clock, script, cwd, data, rows, stdout, procs, before, prev,
                   inserted, runs, env>>

\* db_add.py: data = (1, 0, datetime.now(), datetime.now(), ...)
ParamsAdd ==
    /\ At("params")
    /\ script = "add"
    /\ \E t1 \in Reads(clock) : \E t2 \in Reads(t1) :
          /\ data' = AddData(t1, t2)
          /\ clock' = t2
    /\ Advance
    /\ UNCHANGED <<storage, script, cwd, conn, txn, rows, stdout, log, procs,
                   before, prev, inserted, runs, env>>

\* db_UPDATE.py: event_id, new_title, new_description, new_updated_at
ParamsUpdate ==
    /\ At("params")
    /\ script = "update"
    /\ \E t \in Reads(clock) :
          /\ data' = [event_id |-> event_id, title |-> new_title,
                      description |-> new_description, updated_at |-> t]
          /\ clock' = t
    /\ Advance
    /\ UNCHANGED <<storage, script, cwd, conn, txn, rows, stdout, log, procs,
                   before, prev, inserted, runs, env>>

\* db_delete.py: event_id = 3
ParamsDelete ==
    /\ At("params")
    /\ script = "delete"
    /\ data' = [event_id |-> event_id]
    /\ Advance
    /\ UNCHANGED <<storage, clock, script, cwd, conn, txn, rows, stdout, log,
                   procs, before, prev, inserted, runs, env>>

\* cursor.execute(INSERT ...): OperationalError when the table is missing
ExecInsert ==
    /\ At("insert")
    /\ IF HasTable(txn)
       THEN /\ txn' = InsertRow(txn, data)
            /\ inserted' = inserted \cup {AssignId(txn)}
            /\ log' = Append(log, "execute")
            /\ Advance
       ELSE /\ Raise
            /\ log' = Append(log, "raise")
            /\ UNCHANGED <<txn, inserted>>
    /\ UNCHANGED <<storage, clock, script, cwd, conn, data, rows, stdout, procs,
                   before, prev, runs, env>>

\* cursor.execute(UPDATE ...)
ExecUpdate ==
    /\ At("update")
    /\ IF HasTable(txn)
       THEN /\ txn' = UpdateRows(txn, data)
            /\ log' = Append(log, "execute")
            /\ Advance
       ELSE /\ Raise
            /\ log' = Append(log, "raise")
            /\ UNCHANGED txn
    /\ UNCHANGED <<storage, clock, script, cwd, conn, data, rows, stdout, procs,
                   before, prev, inserted, runs, env>>

\* cursor.execute(DELETE ...)
ExecDelete ==
    /\ At("delete")
    /\ IF HasTable(txn)
       THEN /\ txn' = DeleteRows(txn, data)
            /\ log' = Append(log, "execute")
            /\ Advance
       ELSE /\ Raise
            /\ log' = Append(log, "raise")
            /\ UNCHANGED txn
    /\ UNCHANGED <<storage, clock, script, cwd, conn, data, rows, stdout, procs,
                   before, prev, inserted, runs, env>>

\* db_check.py: cursor.execute(SELECT *); rows = cursor.fetchall()
Select ==
    /\ At("select")
    /\ IF HasTable(txn)
       THEN /\ \E l \in FetchAll(txn) : rows' = l
            /\ log' = log \o <<"execute", "fetchall">>
            /\ Advance
       ELSE /\ Raise
            /\ log' = Append(log, "raise")
            /\ UNCHANGED rows
    /\ UNCHANGED <<storage, clock, script, cwd, conn, txn, data, stdout, procs,
                   before, prev, inserted, runs, env>>

\* db_check.py: one iteration of "for row in rows: print(row)"
ReportRow ==
    /\ At("printrows")
    /\ Len(stdout) < Len(rows)
    /\ stdout' = Append(stdout, rows[Len(stdout) + 1])
    /\ log' = Append(log, "print")
    /\ UNCHANGED <<storage, clock, script, cwd, status, pc, conn, txn, data,
                   rows, procs, before, prev, inserted, runs, env>>

\* db_check.py: the loop ends when every row is printed
EndLoop ==
    /\ At("printrows")
    /\ Len(stdout) = Len(rows)
    /\ Advance
    /\ UNCHANGED <<storage, clock, script, cwd, conn, txn, data, rows, stdout,
                   log, procs, before, prev, inserted, runs, env>>

\* conn.commit()
Commit ==
    /\ At("commit")
    /\ storage' = [storage EXCEPT ![conn.file] = txn]
    /\ log' = Append(log, "commit")
    /\ Advance
    /\ UNCHANGED <<clock, script, cwd, conn, txn, data, rows, stdout, procs,
                   before, prev, inserted, runs, env>>

\* conn.close(): what was not committed is lost
Close ==
    /\ At("close")
    /\ conn' = [conn EXCEPT !.open = FALSE]
    /\ txn' = storage[conn.file]
    /\ log' = Append(log, "close")
    /\ Advance
    /\ UNCHANGED <<storage, clock, script, cwd, data, rows, stdout, procs,
                   before, prev, inserted, runs, env>>

\* print(success message)
Report ==
    /\ At("print")
    /\ stdout' = Append(stdout, MessageOf(script))
    /\ log' = Append(log, "print")
    /\ Advance
    /\ UNCHANGED <<storage, clock, script, cwd, conn, txn, data, rows, procs,
                   before, prev, inserted, runs, env>>

----------------------------------------------------------------------------
(* Statements of start.py *)

BootCmds == {"pip", "makemigrations", "migrate", "runserver"}

\* subprocess.run(..., check=True) is given for the dependency install only
CheckedAll(cmd) == TRUE

Checked(cmd) == cmd = "pip"

\* The executable each command line names first
ExecutableOf(cmd) == IF cmd = "pip" THEN "pip" ELSE "python"

Last(s) == s[Len(s)]

ChildRunning == procs # <<>> /\ Last(procs).state = "running"

\* os.chdir("event-calendar-main")
Chdir ==
    /\ At("chdir")
    /\ IF Resolve(cwd, "event-calendar-main/db.sqlite3") = "nodir"
       THEN /\ Raise
            /\ log' = Append(log, "raise")
            /\ cwd' = cwd
       ELSE /\ Advance
            /\ log' = Append(log, "chdir")
            /\ cwd' = "project"
    /\ UNCHANGED <<storage, clock, script, conn, txn, data, rows, stdout, procs,
                   before, prev, inserted, runs, env>>

\* subprocess.run starts the child; OSError when the executable is not found
Launch ==
    /\ status = "running"
    /\ Stmt \in BootCmds
    /\ ~ChildRunning
    /\ IF ExecutableOf(Stmt) \in env
       THEN /\ procs' = Append(procs, [cmd |-> Stmt, state |-> "running", rc |-> 0])
            /\ log' = Append(log, "launch")
            /\ UNCHANGED <<pc, status>>
       ELSE /\ procs' = Append(procs, [cmd |-> Stmt, state |-> "nolaunch", rc |-> 0])
            /\ log' = Append(log, "raise")
            /\ Raise
    /\ UNCHANGED <<storage, clock, script, cwd, conn, txn, data, rows, stdout,
                   before, prev, inserted, runs, env>>

\* subprocess.run returns when the child has exited; CalledProcessError when
\* check=True and the return code is not zero
Wait ==
    /\ status = "running"
    /\ ChildRunning
    /\ \E rc \in {0, 1} :
          /\ procs' = [procs EXCEPT ![Len(procs)] = [@ EXCEPT !.state = "exited", !.rc = rc]]
          /\ IF Checked(Last(procs).cmd) /\ rc # 0
             THEN Raise /\ log' = Append(log, "raise")
             ELSE Advance /\ log' = Append(log, "exit")
    /\ UNCHANGED <<storage, clock, script, cwd, conn, txn, data, rows, stdout,
                   before, prev, inserted, runs, env>>

----------------------------------------------------------------------------

Next ==
    \/ \E s \in Scripts : \E d \in Dirs : \E e \in SUBSET Executables : Start(s, d, e)
    \/ Connect
    \/ ParamsAdd
    \/ ParamsUpdate
    \/ ParamsDelete
    \/ ExecInsert
    \/ ExecUpdate
    \/ ExecDelete
    \/ Select
    \/ ReportRow
    \/ EndLoop
    \/ Commit
    \/ Close
    \/ Report
    \/ Chdir
    \/ Launch
    \/ Wait

Spec == Init /\ [][Next]_vars

TypeOK ==
    /\ status \in {"idle", "running", "done", "error"}
    /\ script \in Scripts \cup {"none"}
    /\ clock \in 0..(MaxClock + 1)
    /\ runs \in 0..(MaxRuns + 1)

----------------------------------------------------------------------------
(* Vocabulary of the properties *)

Done(s) == script = s /\ status = "done"

Ended == status \in {"done", "error"}

\* The file the running script's path literal names
Target == Resolve(cwd, PathOf(script))

\* The previous run was script s, ended with exit code 0 and used the file
\* the current run uses
After(s) ==
    /\ prev.script = s
    /\ prev.status = "done"
    /\ prev.file = conn.file

Col(t, name) == t[CHOOSE i \in 1..Len(Schema) : Schema[i] = name]

Printed == {stdout[i] : i \in DOMAIN stdout}

Tuples(rs) == {TupleOf(r) : r \in rs}

Count(ev) == Cardinality({i \in DOMAIN log : log[i] = ev})

\* Every ev2 in the log has an ev1 before it
Precedes(ev1, ev2) ==
    \A j \in DOMAIN log : log[j] = ev2 => \E i \in 1..(j - 1) : log[i] = ev1

SameButUpdated(o, n) ==
    /\ n.id = o.id
    /\ n.start_time = o.start_time
    /\ n.end_time = o.end_time
    /\ n.is_active = o.is_active
    /\ n.is_deleted = o.is_deleted
    /\ n.created_at = o.created_at
    /\ n.user_id = o.user_id

Carries(t, d) ==
    /\ Col(t, "is_active") = d.is_active
    /\ Col(t, "is_deleted") = d.is_deleted
    /\ Col(t, "created_at") = d.created_at
    /\ Col(t, "updated_at") = d.updated_at
    /\ Col(t, "description") = d.description
    /\ Col(t, "start_time") = d.start_time
    /\ Col(t, "end_time") = d.end_time
    /\ Col(t, "user_id") = d.user_id
    /\ Col(t, "title") = d.title

----------------------------------------------------------------------------
(* C1 *)

\* C1: when db_add.py has run, its table holds every row it held before,
\* unchanged, and exactly one more row, which carries the nine supplied
\* values and an id no row had before; a db_check.py run that follows on the
\* same file prints exactly these rows: one new tuple with the nine values
\* and a fresh id, every old tuple, and one line more than there were rows.
C1_InsertThenList ==
    /\ Done("add") =>
          LET old == before[conn.file].rows
              new == storage[conn.file].rows
          IN /\ old \subseteq new
             /\ Cardinality(new) = Cardinality(old) + 1
             /\ \A r \in new \ old :
                   r.id \notin Ids(old) /\ Carries(TupleOf(r), data)
    /\ (Done("check") /\ After("add")) =>
          LET old == prev.before[conn.file].rows
              fresh == Printed \ Tuples(old)
          IN /\ Len(stdout) = Cardinality(old) + 1
             /\ Tuples(old) \subseteq Printed
             /\ Cardinality(fresh) = 1
             /\ \A t \in fresh :
                   Col(t, "id") \notin Ids(old) /\ Carries(t, prev.data)

C1_Witness ==
    /\ Done("check")
    /\ After("add")
    /\ Cardinality(prev.before[conn.file].rows) >= 2
    /\ prev.data.created_at < prev.data.updated_at

----------------------------------------------------------------------------
(* C2 *)

\* C2: when db_UPDATE.py has run on a table that held a row with the target
\* id, that row has the new title, the new description and the updated_at
\* the script read from the clock, and its other seven columns are as
\* before; every other row, the set of ids and every other file are as
\* before.
C2_UpdateFrame ==
    (Done("update") /\ event_id \in Ids(before[conn.file].rows)) =>
       LET old == before[conn.file].rows
           new == storage[conn.file].rows
       IN /\ Ids(new) = Ids(old)
          /\ Cardinality(new) = Cardinality(old)
          /\ \A o \in old :
                IF o.id = event_id
                THEN \E n \in new :
                        /\ SameButUpdated(o, n)
                        /\ n.title = new_title
                        /\ n.description = new_description
                        /\ n.updated_at = data.updated_at
                ELSE o \in new
          /\ \A g \in Files \ {conn.file} : storage[g] = before[g]

C2_Witness ==
    /\ Done("update")
    /\ event_id \in Ids(before[conn.file].rows)
    /\ Cardinality(before[conn.file].rows) >= 2
    /\ storage[conn.file] # before[conn.file]

----------------------------------------------------------------------------
(* C3 *)

\* C3: a db_UPDATE.py or db_delete.py run whose table exists never ends with
\* an error: it ends with exit code 0 after exactly one commit and prints
\* exactly its success message, whether or not a row with the target id
\* existed; when none existed, the file is exactly as it was.
C3_AbsentIdSilent ==
    (script \in {"update", "delete"} /\ Ended /\ Target # "nodir"
        /\ HasTable(before[Target])) =>
       /\ status = "done"
       /\ Count("commit") = 1
       /\ stdout = <<MessageOf(script)>>
       /\ event_id \notin Ids(before[Target].rows) =>
             \A g \in Files : storage[g] = before[g]

C3_Witness ==
    /\ Done("delete")
    /\ before[conn.file].rows # {}
    /\ event_id \notin Ids(before[conn.file].rows)
    /\ prev.script = "update"
    /\ prev.status = "done"
    /\ prev.before[prev.file].rows # {}
    /\ event_id \notin Ids(prev.before[prev.file].rows)

----------------------------------------------------------------------------
(* C4 *)

\* C4: when db_delete.py has run on a table that held a row with the target
\* id, no row has that id, the rows left are exactly the other rows,
\* unchanged (is_deleted included), and there is one row less; a db_check.py
\* run that follows on the same file prints exactly the other rows.
C4_HardDelete ==
    /\ (Done("delete") /\ event_id \in Ids(before[conn.file].rows)) =>
          LET old == before[conn.file].rows
              new == storage[conn.file].rows
          IN /\ event_id \notin Ids(new)
             /\ new = {r \in old : r.id # event_id}
             /\ Cardinality(new) = Cardinality(old) - 1
    /\ (Done("check") /\ After("delete")
          /\ event_id \in Ids(prev.before[conn.file].rows)) =>
          LET old == prev.before[conn.file].rows
          IN /\ \A t \in Printed : Col(t, "id") # event_id
             /\ Printed = Tuples({r \in old : r.id # event_id})
             /\ Len(stdout) = Cardinality(old) - 1

C4_Witness ==
    /\ Done("check")
    /\ After("delete")
    /\ event_id \in Ids(prev.before[conn.file].rows)
    /\ \E r \in prev.before[conn.file].rows : r.id # event_id /\ r.is_deleted = 1

----------------------------------------------------------------------------
(* C5 *)

\* C5: when db_check.py has run, it has printed one tuple per row of its
\* table, as many tuples as there are rows, each with the ten columns in
\* schema order; and during a db_check.py run the rows of every file are
\* the rows the file had when the run started.
C5_ListingComplete ==
    /\ Done("check") =>
          /\ Len(stdout) = Cardinality(storage[conn.file].rows)
          /\ Printed = Tuples(storage[conn.file].rows)
          /\ \A t \in Printed :
                /\ Len(t) = Len(Schema)
                /\ \E r \in storage[conn.file].rows :
                      \A i \in 1..Len(Schema) : t[i] = r[Schema[i]]
    /\ script = "check" =>
          \A g \in Files :
             /\ storage[g].rows = before[g].rows
             /\ HasTable(storage[g]) = HasTable(before[g])
             /\ storage[g].seq = before[g].seq

C5_Witness ==
    /\ Done("check")
    /\ Len(stdout) >= 2
    /\ prev.script \in Writers
    /\ prev.status = "done"
    /\ prev.file = conn.file
    /\ storage[conn.file] # prev.before[conn.file]

----------------------------------------------------------------------------
(* C6 *)

\* C6: when db_UPDATE.py has run with exit code 0 and a db_check.py run
\* follows whose table held a row with id 3 before the update, db_check.py
\* prints a tuple with id 3, the new title and an updated_at greater than
\* the one the row had before the update.
C6_UpdateThenList ==
    (Done("check") /\ prev.script = "update" /\ prev.status = "done"
        /\ event_id \in Ids(prev.before[conn.file].rows)) =>
       \E t \in Printed :
          /\ Col(t, "id") = event_id
          /\ Col(t, "title") = new_title
          /\ \A o \in prev.before[conn.file].rows :
                o.id = event_id => Col(t, "updated_at") > o.updated_at

----------------------------------------------------------------------------
(* C7 *)

BootOrder == <<"pip", "makemigrations", "migrate", "runserver">>

ExitedNonZero(p) == p.state = "exited" /\ p.rc # 0

NotLaunched(p) == p.state = "nolaunch"

\* The part of C7 that does not depend on what "fails" means: the commands
\* are launched in the fixed order after the change of directory, each only
\* when the one before has exited, and nothing follows a dependency install
\* that could not be launched or exited with a non-zero code.
BootSequential ==
    /\ Len(procs) <= Len(BootOrder)
    /\ \A i \in DOMAIN procs : procs[i].cmd = BootOrder[i]
    /\ procs # <<>> => (log[1] = "chdir" /\ cwd = "project")
    /\ \A i \in 1..(Len(procs) - 1) : procs[i].state = "exited"
    /\ (procs # <<>> /\ (NotLaunched(procs[1]) \/ ExitedNonZero(procs[1]))) =>
          (status = "error" /\ Len(procs) = 1)

\* C7 as stated, "fails" covering every failure of the step: when start.py
\* has ended and makemigrations or migrate failed, every later command was
\* started.
C7_AnyFailureUnchecked ==
    script = "start" =>
       /\ BootSequential
       /\ Ended =>
             \A i \in {2, 3} :
                (i <= Len(procs) /\ (NotLaunched(procs[i]) \/ ExitedNonZero(procs[i]))) =>
                   (Len(procs) = 4 /\ \A j \in (i + 1)..4 : ~NotLaunched(procs[j]))

\* C7, amended: a makemigrations or migrate that exits with a non-zero code
\* does not abort start.py: the next command is the next statement, and
\* when start.py has ended every later command was started.
C7_ExitCodeUnchecked ==
    script = "start" =>
       /\ BootSequential
       /\ \A i \in {2, 3} :
             (i <= Len(procs) /\ ExitedNonZero(procs[i])) =>
                /\ status # "error"
                /\ (status = "running" /\ Len(procs) = i) => Stmt = BootOrder[i + 1]
                /\ status = "done" =>
                      (Len(procs) = 4 /\ \A j \in (i + 1)..4 : ~NotLaunched(procs[j]))

C7_Witness ==
    /\ Done("start")
    /\ Len(procs) = 4
    /\ ExitedNonZero(procs[2])
    /\ ExitedNonZero(procs[3])

----------------------------------------------------------------------------
(* C8 *)

Unique(rs) == \A r1, r2 \in rs : r1.id = r2.id => r1 = r2

\* C8: the ids of the rows of every table are pairwise distinct, in the
\* files and in the open connection's view; the row db_add.py adds has an id
\* no row of the table had; db_UPDATE.py and db_delete.py change or remove
\* at most one row.
C8_IdsUnique ==
    /\ \A f \in Files : Unique(storage[f].rows)
    /\ Unique(txn.rows)
    /\ (script = "add" /\ conn.file # "none") =>
          \A r \in txn.rows \ before[conn.file].rows :
             r.id \notin Ids(before[conn.file].rows)
    /\ (script \in {"update", "delete"} /\ conn.file # "none") =>
          /\ Cardinality(before[conn.file].rows \ txn.rows) <= 1
          /\ Cardinality(txn.rows \ before[conn.file].rows) <= 1
          /\ Cardinality(before[conn.file].rows \ storage[conn.file].rows) <= 1

C8_Witness ==
    /\ Done("add")
    /\ conn.file = "projdb"
    /\ Cardinality(storage["projdb"].rows) >= 2
    /\ prev.script = "delete"
    /\ prev.status = "done"
    /\ prev.file = "projdb"
    /\ event_id \in Ids(prev.before["projdb"].rows)

----------------------------------------------------------------------------
(* C9 *)

\* No ev2 in the log has an ev1 before it
NeverAfter(ev1, ev2) ==
    \A j \in DOMAIN log : log[j] = ev2 => \A i \in 1..(j - 1) : log[i] # ev1

WriterOrder ==
    script \in Writers =>
       /\ Precedes("connect", "execute")
       /\ Precedes("execute", "commit")
       /\ Precedes("commit", "close")
       /\ Precedes("commit", "print")
       /\ Precedes("close", "print")
       /\ NeverAfter("close", "execute")
       /\ NeverAfter("close", "commit")
       /\ Count("commit") <= 1
       /\ status = "done" =>
             log = <<"connect", "execute", "commit", "close", "print">>

\* C9 as stated: in every script a line is printed only after the
\* connection is closed.
C9_ReportAfterClose ==
    script \in DbScripts =>
       /\ WriterOrder
       /\ Precedes("close", "print")
       /\ NeverAfter("close", "execute")
       /\ NeverAfter("close", "commit")

\* C9, amended: the writing scripts connect, execute, commit exactly once,
\* close and then print their message; db_check.py connects, executes,
\* fetches, prints its rows and closes last, so it prints while the
\* connection is still open; no script executes or commits after close.
C9_StatementOrder ==
    script \in DbScripts =>
       /\ WriterOrder
       /\ script = "check" =>
             /\ Precedes("connect", "execute")
             /\ Precedes("fetchall", "print")
             /\ NeverAfter("close", "print")
             /\ NeverAfter("close", "execute")
             /\ Count("commit") = 0
             /\ status = "done" => Last(log) = "close"
       /\ conn.open <=> (Count("connect") = 1 /\ Count("close") = 0)

C9_Witness ==
    /\ Done("check")
    /\ Len(stdout) >= 2
    /\ prev.script \in Writers
    /\ prev.status = "done"

----------------------------------------------------------------------------
(* C10 *)

InsertedRows(st) == {r \in st["projdb"].rows : r.id \in inserted}

\* C10: a row created by db_add.py has created_at <= updated_at whenever it
\* is in the table; no step changes its created_at or lowers its updated_at.
C10_Timestamps ==
    [][\A n \in {r \in storage'["projdb"].rows : r.id \in inserted'} :
          /\ n.created_at <= n.updated_at
          /\ \A o \in InsertedRows(storage) :
                o.id = n.id =>
                   (o.created_at = n.created_at /\ o.updated_at <= n.updated_at)]_vars

C10_Witness ==
    /\ Done("update")
    /\ conn.file = "projdb"
    /\ event_id \in inserted
    /\ \E r \in storage["projdb"].rows :
          r.id = event_id /\ r.created_at < r.updated_at /\ r.title = new_title

====
